---------------------------- MODULE Spec2Model ----------------------------
(***************************************************************************)
(* px4rger (src/main.py): propagate a versioned parameter file onto the    *)
(* components of a vehicle, re-applying until no diff is left, checking     *)
(* that the vehicle is armable afterwards and reverting to the parameters   *)
(* read before the first write otherwise.                                   *)
(*                                                                          *)
(* Strings the program inspects character by character (parameter names,    *)
(* the version token, the content of version.state) are sequences of        *)
(* one-character strings.  Float values are integers counting 10^-7, so     *)
(* that round(x, 6) and math.isclose(rel_tol=10^-6) are computed exactly.   *)
(***************************************************************************)
EXTENDS Integers, Sequences, FiniteSets, TLC

(***************************************************************************)
(* Program constants                                                       *)
(***************************************************************************)
FLOAT_TOLERANCE == 6
REL_FLOAT_TOLERANCE_INV == 10 ^ FLOAT_TOLERANCE  \* 1 / REL_FLOAT_TOLERANCE
MAX_REAPPLICATIONS == 5
NoType == 0                                      \* Param.type = None

(***************************************************************************)
(* Bounds of the model                                                     *)
(***************************************************************************)
MaxRuns == 2      \* runs of main() in one behaviour
MaxInAir == 1     \* "in air" values the liveness streams deliver in one run
MaxLong == 6      \* longest parameter list of a component in the file
MaxCalls == 2     \* calls of find_changed_params on one pair of inputs

UnitsPerOne == 10 ^ 7                            \* float 1.0 in model units
Quantum == UnitsPerOne \div (10 ^ FLOAT_TOLERANCE) \* 10^-6 in model units

Abs(x) == IF x < 0 THEN -x ELSE x
Max2(x, y) == IF x >= y THEN x ELSE y

(***************************************************************************)
(* Character strings                                                       *)
(***************************************************************************)
Whitespace == {" ", "\n", "\t"}

StartsWith(s, p) == Len(s) >= Len(p) /\ SubSeq(s, 1, Len(p)) = p
EndsWith(s, p) == Len(s) >= Len(p) /\ SubSeq(s, Len(s) - Len(p) + 1, Len(s)) = p

RECURSIVE LStrip(_)
LStrip(s) == IF s # <<>> /\ Head(s) \in Whitespace THEN LStrip(Tail(s)) ELSE s

RECURSIVE RStrip(_)
RStrip(s) ==
    IF s # <<>> /\ s[Len(s)] \in Whitespace THEN RStrip(SubSeq(s, 1, Len(s) - 1)) ELSE s

\* str.strip()
Strip(s) == RStrip(LStrip(s))

Digits == <<"1", "2", "3", "4", "5", "6", "7", "8", "9">>

(***************************************************************************)
(* Parameter names of the vehicle                                          *)
(***************************************************************************)
BAT_N == <<"B", "A", "T", "_", "N">>
MPC_Z == <<"M", "P", "C", "_", "Z">>
UUID == <<"U", "U", "I", "D">>
CAL_MAG0 == <<"C", "A", "L", "_", "M", "A", "G", "0">>
PN(i) == <<"P", Digits[i]>>

Comp1 == [vehicle_id |-> 1, component_id |-> 1]
Comp2 == [vehicle_id |-> 1, component_id |-> 2]
Components == {Comp1, Comp2}

(***************************************************************************)
(* class Param: a device parameter is Param[int], Param[float] or          *)
(* Param[str] (kind), a parameter of the file is an unparametrised Param   *)
(* whose value is the text of the fourth column (kind "any").              *)
(***************************************************************************)
DevParam(n, k, v) == [name |-> n, kind |-> k, value |-> v, type |-> NoType]

\* the text of a value column: what it reads as ("int", "float" or "none"),
\* and the number it denotes (floats in model units)
Text(t, d, n) == [text |-> t, denotes |-> d, num |-> n]

FileParam(n, txt, ty) == [name |-> n, kind |-> "any", value |-> txt, type |-> ty]

(***************************************************************************)
(* _skip_settings                                                          *)
(***************************************************************************)
SkippedName(n) ==
    \/ StartsWith(n, <<"C", "A", "L", "_", "M", "A", "G">>)
    \/ n \in { <<"L","N","D","M","C","_","Z","_","V","E","L","_","M","A","X">>,
               <<"M","P","C","_","Z","_","V","_","A","U","T","O","_","U","P">>,
               <<"C","O","M","_","P","A","R","A","C","H","U","T","E">> }
    \/ StartsWith(n, <<"S", "Y", "S", "_", "H", "A", "S", "_">>)
    \/ /\ StartsWith(n, <<"S", "E", "N", "S", "_">>)
       /\ \/ EndsWith(n, <<"_", "A", "U", "T", "O", "C", "A", "L">>)
          \/ EndsWith(n, <<"_", "M", "O", "D", "E">>)

_skip_settings(ps) == SelectSeq(ps, LAMBDA p : ~SkippedName(p.name))

(***************************************************************************)
(* The vehicle.  device[c] maps the names the component c knows to its     *)
(* parameters; DeviceOrder is the order in which get_all_params lists them. *)
(* A rule [src, dst, val] of the firmware sets dst to val whenever src is   *)
(* written (dst = src: the firmware replaces the written value).            *)
(***************************************************************************)
DeviceOrder ==
    <<BAT_N, CAL_MAG0>> \o [i \in 1..MaxLong |-> PN(i)] \o <<MPC_Z, UUID>>

FactoryParam(n) ==
    IF n = MPC_Z THEN DevParam(n, "float", UnitsPerOne)
    ELSE IF n = UUID THEN DevParam(n, "str", "a")
    ELSE DevParam(n, "int", 0)

AllNames == {DeviceOrder[i] : i \in DOMAIN DeviceOrder}

FactoryDevice(names) == [n \in names |-> FactoryParam(n)]

\* round(x, FLOAT_TOLERANCE): to the nearest multiple of 10^-6 (a tie, which no
\* value of the model is, to the even multiple)
Round6(x) ==
    LET lo == (x \div Quantum) * Quantum
        r == x - lo
    IN  IF 2 * r < Quantum THEN lo
        ELSE IF 2 * r > Quantum THEN lo + Quantum
        ELSE IF (lo \div Quantum) % 2 = 0 THEN lo ELSE lo + Quantum

\* read_param_spec: name -> Param, floats rounded on read
read_param_spec(dev) ==
    [n \in DOMAIN dev |->
        IF dev[n].kind = "float"
        THEN DevParam(n, "float", Round6(dev[n].value))
        ELSE DevParam(n, dev[n].kind, dev[n].value)]

\* faulty variant of ReadList: the list holds the int parameters only
ReadListIntOnly(dev) ==
    LET names == SelectSeq(DeviceOrder,
                     LAMBDA n : n \in DOMAIN dev /\ dev[n].kind = "int")
    IN  [i \in DOMAIN names |-> read_param_spec(dev)[names[i]]]

\* list(read_param_spec(drone).values()): int, then float, then custom
\* parameters, each group in the order of the device
ReadList(dev) ==
    LET ofKind(k) == SelectSeq(DeviceOrder,
                        LAMBDA n : n \in DOMAIN dev /\ dev[n].kind = k)
        names == ofKind("int") \o ofKind("float") \o ofKind("str")
    IN  [i \in DOMAIN names |-> read_param_spec(dev)[names[i]]]

\* drone.param.set_param_*: the device stores the value, then its rules act
DeviceWrite(dev, rs, n, v) ==
    LET stored == [dev EXCEPT ![n].value = v]
        hit(d) == {r \in rs : r.src = n /\ r.dst = d}
    IN  IF n \notin DOMAIN dev THEN dev
        ELSE [d \in DOMAIN dev |->
                IF hit(d) # {}
                THEN [stored[d] EXCEPT !.value = (CHOOSE r \in hit(d) : TRUE).val]
                ELSE stored[d]]

RECURSIVE DeviceWriteAll(_, _, _, _)
\* the first k writes of set_params, in order
DeviceWriteAll(dev, rs, ps, k) ==
    IF k = 0 THEN dev
    ELSE DeviceWrite(DeviceWriteAll(dev, rs, ps, k - 1), rs,
                     ps[k].name, ps[k].value)

(***************************************************************************)
(* find_changed_params and its helpers                                     *)
(***************************************************************************)
\* current_param.model_validate(p.model_dump()): the value of p coerced into
\* the kind of the live parameter; err when pydantic raises ValidationError
model_validate(cur, p) ==
    LET ok(v) == [err |-> FALSE,
                  param |-> [name |-> p.name, kind |-> cur.kind,
                             value |-> v, type |-> p.type]]
        fail == [err |-> TRUE, param |-> cur]
    IN  IF p.kind = cur.kind THEN ok(p.value)
        ELSE IF p.kind # "any" THEN fail
        ELSE IF cur.kind = "str" THEN ok(p.value.text)
        ELSE IF cur.kind = "int" THEN
            IF p.value.denotes = "int" THEN ok(p.value.num)
            ELSE IF p.value.denotes = "float" /\ p.value.num % UnitsPerOne = 0
                 THEN ok(p.value.num \div UnitsPerOne)
            ELSE fail
        ELSE IF p.value.denotes = "int" THEN ok(p.value.num * UnitsPerOne)
        ELSE IF p.value.denotes = "float" THEN ok(p.value.num)
        ELSE fail

\* faulty variant of IsClose: the tolerance is absolute (abs_tol) instead of
\* relative
IsCloseAbs(a, b) ==
    \/ a = b
    \/ Abs(a - b) <= UnitsPerOne \div REL_FLOAT_TOLERANCE_INV

\* math.isclose(a, b, rel_tol=REL_FLOAT_TOLERANCE)
IsClose(a, b) ==
    \/ a = b
    \/ Abs(a - b) <= Max2(Abs(a), Abs(b)) \div REL_FLOAT_TOLERANCE_INV

\* faulty variant of _params_equal: the parameters are compared as wholes, type tag
\* included
_params_equal_whole(a, b) == a = b

_params_equal(a, b) ==
    IF a.value = b.value THEN TRUE
    ELSE IF a.kind = "float" \/ b.kind = "float" THEN IsClose(a.value, b.value)
    ELSE FALSE

RECURSIVE FindFromNoSkip(_, _, _)
\* faulty variant of FindFrom: a name the vehicle does not have is compared with a
\* default parameter instead of being skipped
FindFromNoSkip(current_params, new_params, k) ==
    IF k = 0 THEN [err |-> FALSE, old_values |-> <<>>, changed_params |-> <<>>]
    ELSE
        LET acc == FindFromNoSkip(current_params, new_params, k - 1)
            p == new_params[k]
            current_param == IF p.name \in DOMAIN current_params
                             THEN current_params[p.name]
                             ELSE DevParam(p.name, "int", 0)
            v == model_validate(current_param, p)
        IN  IF acc.err THEN acc
            ELSE IF v.err THEN [acc EXCEPT !.err = TRUE]
            ELSE IF _params_equal(v.param, current_param) THEN acc
            ELSE [err |-> FALSE,
                  old_values |-> Append(acc.old_values, current_param),
                  changed_params |-> Append(acc.changed_params, v.param)]

RECURSIVE FindFromPrepend(_, _, _)
\* faulty variant of FindFrom: a changed parameter is put at the front of the
\* two lists
FindFromPrepend(current_params, new_params, k) ==
    IF k = 0 THEN [err |-> FALSE, old_values |-> <<>>, changed_params |-> <<>>]
    ELSE
        LET acc == FindFromPrepend(current_params, new_params, k - 1)
            p == new_params[k]
        IN  IF acc.err THEN acc
            ELSE IF p.name \notin DOMAIN current_params THEN acc
            ELSE
                LET current_param == current_params[p.name]
                    v == model_validate(current_param, p)
                IN  IF v.err THEN [acc EXCEPT !.err = TRUE]
                    ELSE IF _params_equal(v.param, current_param) THEN acc
                    ELSE [err |-> FALSE,
                          old_values |-> <<current_param>> \o acc.old_values,
                          changed_params |-> <<v.param>> \o acc.changed_params]

RECURSIVE FindFrom(_, _, _)
\* the loop of find_changed_params over new_params[1..k]
FindFrom(current_params, new_params, k) ==
    IF k = 0 THEN [err |-> FALSE, old_values |-> <<>>, changed_params |-> <<>>]
    ELSE
        LET acc == FindFrom(current_params, new_params, k - 1)
            p == new_params[k]
        IN  IF acc.err THEN acc
            ELSE IF p.name \notin DOMAIN current_params THEN acc
            ELSE
                LET current_param == current_params[p.name]
                    v == model_validate(current_param, p)
                IN  IF v.err THEN [acc EXCEPT !.err = TRUE]
                    ELSE IF _params_equal(v.param, current_param) THEN acc
                    ELSE [err |-> FALSE,
                          old_values |-> Append(acc.old_values, current_param),
                          changed_params |-> Append(acc.changed_params, v.param)]

find_changed_params(current_params, new_params) ==
    FindFrom(current_params, new_params, Len(new_params))

(***************************************************************************)
(* notify_changed_params: the status texts it sends, in order              *)
(***************************************************************************)
ChngText(o, n) == [fmt |-> "chng", name |-> n.name, old |-> o.value, new |-> n.value]
UpdatingText(k) == [fmt |-> "updating", n |-> k]
StatusText(sev, txt) == [severity |-> sev, text |-> txt]

\* faulty variant of notify_changed_params: details for fewer than 5 parameters only
notify_changed_params_lt5(old_params, changed_params) ==
    IF changed_params = <<>> THEN <<>>
    ELSE IF Len(changed_params) = 1
    THEN <<StatusText("ERROR", ChngText(old_params[1], changed_params[1]))>>
    ELSE <<StatusText("ERROR", UpdatingText(Len(changed_params)))>> \o
         (IF Len(changed_params) < 5
          THEN [i \in 1..Len(changed_params) |->
                   StatusText("INFO", ChngText(old_params[i], changed_params[i]))]
          ELSE <<>>)

notify_changed_params(old_params, changed_params) ==
    IF changed_params = <<>> THEN <<>>
    ELSE IF Len(changed_params) = 1
    THEN <<StatusText("ERROR", ChngText(old_params[1], changed_params[1]))>>
    ELSE <<StatusText("ERROR", UpdatingText(Len(changed_params)))>> \o
         (IF Len(changed_params) <= 5
          THEN [i \in 1..Len(changed_params) |->
                   StatusText("INFO", ChngText(old_params[i], changed_params[i]))]
          ELSE <<>>)

(***************************************************************************)
(* version_is_new, save_version                                            *)
(***************************************************************************)
NoFile == [exists |-> FALSE, content |-> <<>>]
SaveFormat(version) == [exists |-> TRUE, content |-> version \o <<"\n">>]

\* faulty variant of version_is_new: the content of the file is not stripped
version_is_new_unstripped(version, state_file) ==
    IF ~state_file.exists THEN TRUE
    ELSE version # state_file.content

version_is_new(version, state_file) ==
    IF ~state_file.exists THEN TRUE
    ELSE version # Strip(state_file.content)

(***************************************************************************)
(* Inputs: the parameter file as parse_param_file returns it, the state of *)
(* the vehicle and of version.state before the first run                   *)
(***************************************************************************)
V1 == <<"v", "1">>
V2 == <<"v", "2">>

Bat0 == FileParam(BAT_N, Text("0", "int", 0), 6)
Bat1 == FileParam(BAT_N, Text("1", "int", 1), 6)
BatX == FileParam(BAT_N, Text("x", "none", 0), 6)
MpcNear == FileParam(MPC_Z, Text("1.0000001", "float", UnitsPerOne + 1), 9)
MpcFar == FileParam(MPC_Z, Text("1.00001", "float", UnitsPerOne + 100), 9)
MpcTiny == FileParam(MPC_Z, Text("0.0000004", "float", 4), 9)
UuidB == FileParam(UUID, Text("b", "none", 0), 0)
CalMag1 == FileParam(CAL_MAG0, Text("1", "int", 1), 6)
LongLine(i) == FileParam(PN(i), Text("1", "int", 1), 6)

MpcLines == {MpcNear, MpcFar, MpcTiny}
Lines == {Bat0, Bat1, BatX, UuidB, CalMag1} \cup MpcLines

\* the parameter lists of one component: one line, a BAT_N and an MPC_Z line,
\* or the lines P1 = 1 .. Pn = 1
ParamLists ==
    {<<l>> : l \in Lines}
    \cup {<<Bat1, m>> : m \in MpcLines}
    \cup {<<b, MpcFar>> : b \in {Bat0, BatX, CalMag1}}
    \cup {[i \in 1..n |-> LongLine(i)] : n \in 2..MaxLong}

FirstLists == {<<Bat0>>, <<Bat1>>, <<BatX>>}
SecondLists == {<<Bat1>>, <<MpcFar>>}

Entry(c, ps) == [component |-> c, params |-> ps]

ParamFiles ==
    [version : {V2},
     entries : {<<>>}
               \cup {<<Entry(Comp1, ps)>> : ps \in ParamLists}
               \cup {<<Entry(Comp1, a), Entry(Comp2, b)>> :
                        a \in FirstLists, b \in SecondLists}]

StateFiles == {NoFile, SaveFormat(V1), SaveFormat(V2)}

\* the vehicles: the parameters of its components and the firmware's rules
Vehicle(names1, rs) ==
    [device |-> [c \in Components |->
                    FactoryDevice(IF c = Comp1 THEN names1 ELSE AllNames)],
     rules |-> rs]

Vehicles ==
    { Vehicle(AllNames, {}),
      Vehicle(AllNames \ {BAT_N}, {}),
      Vehicle(AllNames, {[src |-> BAT_N, dst |-> MPC_Z, val |-> 2 * UnitsPerOne]}),
      Vehicle(AllNames, {[src |-> BAT_N, dst |-> MPC_Z, val |-> UnitsPerOne + Quantum]}),
      Vehicle(AllNames, {[src |-> BAT_N, dst |-> BAT_N, val |-> 7]}) }

VARIABLES
    param_file,       \* what read_param_file returns: (version, params)
    args,             \* Config
    state_file,       \* the file LAST_VERSION_STATE
    device,           \* component -> name -> parameter of the vehicle
    rules,            \* the firmware's side effects of a write
    pc,               \* where main is
    runs,             \* runs of main started
    version,          \* main: version
    params,           \* main: params after _skip_settings
    compIdx,          \* main: index of the component of the for loop
    snapshot,         \* process_component_or_revert: current_params
    connected,        \* the component's parameters when it was connected
    phase,            \* "forward": line 85; "revert": line 91
    component_params, \* process_component_until_complete: component_params
    iter,             \* process_component_until_complete: passes finished
    current_params,   \* _process_one_time: current_params
    old_values,       \* _process_one_time: old_values
    changed_params,   \* _process_one_time: changed_params
    streamReads,      \* check_in_air: values read from the stream
    afterUnsafe,      \* "seen": a check_in_air of this run got "in air" as its
                      \* first value; "wrote": and a write was issued later
    inAirSeen,        \* "in air" values delivered in this run
    outcome,          \* how the run ended
    log,              \* the run's interactions with vehicle and state file
    state_file0,      \* state_file when the run started
    prevOutcome,      \* outcome of the run before
    stats             \* steps of the current process_component_until_complete

vars ==
    <<param_file, args, state_file, device, rules, pc, runs, version, params,
      compIdx, snapshot, connected, phase, component_params, iter,
      current_params,
      old_values, changed_params, streamReads, afterUnsafe, inAirSeen,
      outcome, log,
      state_file0, prevOutcome, stats>>

env == <<param_file, args, rules>>
mainVars == <<runs, version, params, state_file0, prevOutcome>>
oneTime == <<current_params, old_values, changed_params>>

NoStats == [checks |-> 0, reads |-> 0, diffs |-> 0, applies |-> 0]

Init ==
    /\ param_file \in ParamFiles
    /\ args \in [skip_version_check : BOOLEAN]
    /\ state_file \in StateFiles
    /\ \E v \in Vehicles : device = v.device /\ rules = v.rules
    /\ pc = "idle"
    /\ runs = 0
    /\ version = <<>>
    /\ params = <<>>
    /\ compIdx = 0
    /\ snapshot = <<>>
    /\ connected = <<>>
    /\ phase = "forward"
    /\ component_params = <<>>
    /\ iter = 0
    /\ current_params = <<>>
    /\ old_values = <<>>
    /\ changed_params = <<>>
    /\ streamReads = 0
    /\ afterUnsafe = "no"
    /\ inAirSeen = 0
    /\ outcome = "none"
    /\ log = <<>>
    /\ state_file0 = state_file
    /\ prevOutcome = "none"
    /\ stats = NoStats

Comp == params[compIdx].component

\* an entry of the log
Ev(op, fields) ==
    fields @@ [op |-> op, comp |-> Comp, phase |-> phase, iter |-> iter]

NoFields == [x \in {} |-> 0]

\* faulty variant of Raise: the handler of NotArmable goes on to save_version
RaiseSaving(exc) ==
    /\ pc' = "done"
    /\ outcome' = exc
    /\ compIdx' = compIdx
    /\ state_file' = IF exc = "NotArmable" /\ ~args.skip_version_check
                     THEN SaveFormat(version) ELSE state_file

\* faulty variant of Raise: the handlers of NotArmable and InAir go on with
\* the next component (continue instead of return)
RaiseContinue(exc) ==
    IF exc \in {"NotArmable", "InAir"}
    THEN /\ pc' = "component"
         /\ outcome' = outcome
         /\ compIdx' = compIdx + 1
         /\ state_file' = state_file
    ELSE /\ pc' = "done"
         /\ outcome' = exc
         /\ compIdx' = compIdx
         /\ state_file' = state_file

\* faulty variant of Raise: the error of a rejected write is swallowed in the
\* loop of process_component_until_complete, which makes its next pass
RaiseRetryWrite(exc) ==
    /\ pc' = IF exc = "ParamError" THEN "in_air" ELSE "done"
    /\ outcome' = IF exc = "ParamError" THEN outcome ELSE exc
    /\ compIdx' = compIdx
    /\ state_file' = state_file

\* an exception reaches main: InAir and NotArmable are caught there and main
\* returns (lines 68-73), any other ends the process; save_version is not
\* reached
Raise(exc) ==
    /\ pc' = "done"
    /\ outcome' = exc
    /\ compIdx' = compIdx
    /\ state_file' = state_file

\* the run goes on at `next`
Goto(next) ==
    /\ pc' = next
    /\ outcome' = outcome
    /\ compIdx' = compIdx
    /\ state_file' = state_file

(***************************************************************************)
(* main, lines 57-62: read the file, the version gate, _skip_settings.     *)
(* The operator runs it again, on the same file, after a run that succeeded *)
(***************************************************************************)
Main ==
    /\ pc = "idle" \/ (pc = "done" /\ outcome \in {"updated", "unchanged"})
    /\ runs < MaxRuns
    /\ runs' = runs + 1
    /\ version' = param_file.version
    /\ state_file0' = state_file
    /\ prevOutcome' = outcome
    /\ log' = <<>>
    /\ inAirSeen' = 0
    /\ afterUnsafe' = "no"
    /\ stats' = NoStats
    /\ streamReads' = 0
    /\ snapshot' = <<>>
    /\ connected' = <<>>
    /\ phase' = "forward"
    /\ component_params' = <<>>
    /\ iter' = 0
    /\ current_params' = <<>>
    /\ old_values' = <<>>
    /\ changed_params' = <<>>
    /\ IF ~args.skip_version_check /\ ~version_is_new(version', state_file)
       THEN /\ pc' = "done"
            /\ outcome' = "unchanged"
            /\ params' = <<>>
            /\ compIdx' = 0
       ELSE /\ pc' = "component"
            /\ outcome' = "running"
            /\ params' = [i \in DOMAIN param_file.entries |->
                            Entry(param_file.entries[i].component,
                                  _skip_settings(param_file.entries[i].params))]
            /\ compIdx' = 1
    /\ UNCHANGED <<env, state_file, device>>

\* process_component_until_complete is entered: the first pass starts with
\* the call of check_in_air
EnterLoop(ph, desired) ==
    /\ phase' = ph
    /\ component_params' = desired
    /\ iter' = 0
    /\ streamReads' = 0
    /\ stats' = [NoStats EXCEPT !.checks = 1]
    /\ pc' = "in_air"
    /\ current_params' = <<>>
    /\ old_values' = <<>>
    /\ changed_params' = <<>>

\* faulty variant of LeaveLoop: passes used up with a diff left is an error
\* (a for/else that raises)
LeaveLoopRaising ==
    IF pc = "set_params" THEN Raise("NotConverged")
    ELSE IF phase = "forward" THEN Goto("health") ELSE Raise("NotArmable")

\* faulty variant of LeaveLoop: the health check is made after the restoration
\* as well
LeaveLoopRecheck == Goto("health")

\* process_component_until_complete has returned
LeaveLoop ==
    IF phase = "forward" THEN Goto("health") ELSE Raise("NotArmable")

(***************************************************************************)
(* process_component_or_revert, lines 82-85: connect, read the snapshot    *)
(***************************************************************************)
ProcessComponentOrRevert ==
    /\ pc = "component"
    /\ compIdx <= Len(params)
    /\ snapshot' = ReadList(device[Comp])
    /\ connected' = device[Comp]
    /\ log' = log \o << Ev("connect", NoFields), Ev("read", NoFields) >>
    /\ EnterLoop("forward", params[compIdx].params)
    /\ UNCHANGED <<env, mainVars, compIdx, state_file, device, afterUnsafe,
                   inAirSeen, outcome>>

(***************************************************************************)
(* main, lines 74-76: every component is done                              *)
(***************************************************************************)
SaveVersion ==
    /\ pc = "component"
    /\ compIdx > Len(params)
    /\ IF ~args.skip_version_check
       THEN /\ state_file' = SaveFormat(version)
            /\ log' = Append(log, [op |-> "save"])
       ELSE UNCHANGED <<state_file, log>>
    /\ pc' = "done"
    /\ outcome' = "updated"
    /\ UNCHANGED <<env, mainVars, compIdx, device, snapshot, connected, phase,
                   component_params, iter, oneTime, streamReads, afterUnsafe,
                   inAirSeen, stats>>

(***************************************************************************)
(* check_in_air: the stream delivers a value, or ends                      *)
(***************************************************************************)
CheckInAirValue ==
    /\ pc = "in_air"
    /\ \E is_in_air \in BOOLEAN :
        /\ is_in_air => inAirSeen < MaxInAir
        /\ streamReads' = streamReads + 1
        /\ inAirSeen' = IF is_in_air THEN inAirSeen + 1 ELSE inAirSeen
        /\ afterUnsafe' = IF is_in_air /\ streamReads = 0 /\ afterUnsafe = "no"
                          THEN "seen" ELSE afterUnsafe
        /\ IF is_in_air
           THEN pc' = "in_air" /\ log' = log
           ELSE /\ pc' = "diff"
                /\ log' = Append(log, Ev("check_in_air", [safe |-> TRUE]))
    /\ UNCHANGED <<env, mainVars, compIdx, state_file, device, snapshot, connected, phase,
                   component_params, iter, oneTime, outcome, stats>>

CheckInAirEnd ==
    /\ pc = "in_air"
    /\ log' = Append(log, Ev("check_in_air", [safe |-> FALSE]))
    /\ Raise("InAir")
    /\ UNCHANGED <<env, mainVars, device, snapshot, connected, phase,
                   component_params, iter, oneTime, streamReads, afterUnsafe,
                   inAirSeen, stats>>

(***************************************************************************)
(* _process_one_time, lines 109-113: read the vehicle and diff             *)
(***************************************************************************)
\* faulty variant of ReadAndDiff: the parameters read in the first pass of the
\* loop are kept for its later passes
ReadAndDiffCached ==
    /\ pc = "diff"
    /\ LET cur == IF iter = 0 THEN read_param_spec(device[Comp])
                  ELSE current_params
           res == find_changed_params(cur, component_params)
       IN  /\ current_params' = cur
           /\ old_values' = res.old_values
           /\ changed_params' = res.changed_params
           /\ IF res.err THEN Raise("ValidationError")
              ELSE IF res.changed_params = <<>> THEN LeaveLoop
              ELSE Goto("notify")
    /\ log' = Append(log, Ev("read", NoFields))
    /\ stats' = [stats EXCEPT !.reads = @ + 1, !.diffs = @ + 1]
    /\ UNCHANGED <<env, mainVars, device, snapshot, connected, phase,
                   component_params, iter, streamReads,
                   afterUnsafe, inAirSeen>>

ReadAndDiff ==
    /\ pc = "diff"
    /\ LET cur == read_param_spec(device[Comp])
           res == find_changed_params(cur, component_params)
       IN  /\ current_params' = cur
           /\ old_values' = res.old_values
           /\ changed_params' = res.changed_params
           /\ IF res.err THEN Raise("ValidationError")
              ELSE IF res.changed_params = <<>> THEN LeaveLoop
              ELSE Goto("notify")
    /\ log' = Append(log, Ev("read", NoFields))
    /\ stats' = [stats EXCEPT !.reads = @ + 1, !.diffs = @ + 1]
    /\ UNCHANGED <<env, mainVars, device, snapshot, connected, phase,
                   component_params, iter, streamReads,
                   afterUnsafe, inAirSeen>>

(***************************************************************************)
(* notify_changed_params: send_status_text number f fails (0: none does)   *)
(***************************************************************************)
Notify ==
    /\ pc = "notify"
    /\ LET texts == notify_changed_params(old_values, changed_params)
           sent(k) == [i \in 1..k |-> Ev("msg", texts[i])]
       IN  \E f \in 0..Len(texts) :
            IF f = 0
            THEN /\ log' = log \o sent(Len(texts))
                 /\ Goto("set_params")
            ELSE /\ log' = (log \o sent(f - 1)) \o <<Ev("msg_fail", texts[f])>>
                 /\ Raise("ServerUtilityError")
    /\ UNCHANGED <<env, mainVars, device, snapshot, connected, phase,
                   component_params, iter, oneTime, streamReads, afterUnsafe,
                   inAirSeen, stats>>

(***************************************************************************)
(* set_params, then the end of the pass in process_component_until_complete *)
(* (lines 101-104): write number f is rejected (0: none is)                 *)
(***************************************************************************)
KnownKind(p) == p.kind \in {"int", "float", "str"}

WriteEv(p) == Ev("write", [name |-> p.name, kind |-> p.kind, value |-> p.value])

\* faulty variant of MorePasses: one pass too many
MorePassesInclusive(i) == i <= MAX_REAPPLICATIONS

MorePasses(i) == i < MAX_REAPPLICATIONS

SetParams ==
    /\ pc = "set_params"
    /\ LET n == Len(changed_params)
           written(k) == [i \in 1..k |-> WriteEv(changed_params[i])]
       IN  \E f \in 0..n :
            IF f = 0
            THEN /\ device' = [device EXCEPT ![Comp] =
                                 DeviceWriteAll(@, rules, changed_params, n)]
                 /\ log' = log \o written(n)
                 /\ iter' = iter + 1
                 /\ IF MorePasses(iter + 1)
                    THEN /\ Goto("in_air")
                         /\ stats' = [stats EXCEPT !.applies = @ + 1,
                                                   !.checks = @ + 1]
                    ELSE /\ LeaveLoop
                         /\ stats' = [stats EXCEPT !.applies = @ + 1]
                 /\ streamReads' = 0
                 /\ afterUnsafe' = IF afterUnsafe = "seen" THEN "wrote"
                                   ELSE afterUnsafe
            ELSE /\ device' = [device EXCEPT ![Comp] =
                                 DeviceWriteAll(@, rules, changed_params, f - 1)]
                 /\ log' = (log \o written(f - 1)) \o
                           <<Ev("write_fail", [name |-> changed_params[f].name])>>
                 /\ Raise(IF KnownKind(changed_params[f])
                          THEN "ParamError" ELSE "ValueError")
                 /\ afterUnsafe' = IF afterUnsafe = "seen" THEN "wrote"
                                   ELSE afterUnsafe
                 /\ UNCHANGED <<iter, stats, streamReads>>
    /\ UNCHANGED <<env, mainVars, snapshot, connected, phase,
                   component_params, oneTime, inAirSeen>>

(***************************************************************************)
(* check_is_armable and lines 86-92: the first health value, or none       *)
(***************************************************************************)
CheckIsArmable ==
    /\ pc = "health"
    /\ \E health \in {"armable", "not_armable", "no_value"} :
        /\ IF health = "armable"
           THEN /\ log' = Append(log, Ev("health", [is_armable |-> TRUE]))
                /\ compIdx' = compIdx + 1
                /\ pc' = "component"
                /\ UNCHANGED <<phase, component_params, iter, oneTime,
                               streamReads, stats>>
           ELSE /\ log' = log \o << Ev("health", [is_armable |-> FALSE]),
                                    Ev("revert", NoFields) >>
                /\ EnterLoop("revert", snapshot)
                /\ UNCHANGED compIdx
    /\ UNCHANGED <<env, mainVars, state_file, device, snapshot, connected,
                   afterUnsafe,
                   inAirSeen, outcome>>

Next ==
    \/ Main
    \/ ProcessComponentOrRevert
    \/ SaveVersion
    \/ CheckInAirValue
    \/ CheckInAirEnd
    \/ ReadAndDiff
    \/ Notify
    \/ SetParams
    \/ CheckIsArmable

Spec == Init /\ [][Next]_vars

(***************************************************************************)
(* find_changed_params on its own: a live set as read_param_spec returns   *)
(* it from a vehicle (kept in `connected`), a desired list (kept in         *)
(* `params`): lines of a file, or the list of the parameters of a vehicle,  *)
(* as line 84 takes it; the function is called MaxCalls times on them and   *)
(* `log` keeps what each call returned.                                     *)
(***************************************************************************)
Mpc2Near == FileParam(MPC_Z, Text("2.0000015", "float", 2 * UnitsPerOne + 15), 9)

DiffDevices ==
    { [[FactoryDevice(ns) EXCEPT ![MPC_Z].value = m] EXCEPT ![UUID].value = u] :
         ns \in {AllNames, AllNames \ {BAT_N}},
         m \in {UnitsPerOne, UnitsPerOne + Quantum, 2 * UnitsPerOne, 4},
         u \in {"a", "b"} }

DiffLists ==
    ParamLists
    \cup { <<Mpc2Near>>, <<MpcFar, Bat1>>, <<Bat1, Bat0>>, <<MpcTiny, MpcFar>>,
           <<UuidB, Bat1, MpcFar>> }
    \cup { ReadList(d) : d \in {FactoryDevice(AllNames),
                                 [FactoryDevice(AllNames) EXCEPT ![BAT_N].value = 7]} }

InitDiff ==
    /\ connected \in DiffDevices
    /\ current_params = read_param_spec(connected)
    /\ snapshot = ReadList(connected)
    /\ \E l \in DiffLists \cup {snapshot} :
        /\ params = <<Entry(Comp1, l)>>
        /\ component_params = l
    /\ param_file = [version |-> V2, entries |-> <<>>]
    /\ args = [skip_version_check |-> FALSE]
    /\ state_file = NoFile
    /\ device = [c \in Components |-> connected]
    /\ rules = {}
    /\ pc = "idle"
    /\ runs = 0
    /\ version = <<>>
    /\ compIdx = 1
    /\ phase = "forward"
    /\ iter = 0
    /\ old_values = <<>>
    /\ changed_params = <<>>
    /\ streamReads = 0
    /\ afterUnsafe = "no"
    /\ inAirSeen = 0
    /\ outcome = "none"
    /\ log = <<>>
    /\ state_file0 = state_file
    /\ prevOutcome = "none"
    /\ stats = NoStats

\* faulty variant of FindChangedParamsCall: the loop consumes the desired
\* list (new_params.pop(0) instead of iterating over it)
FindChangedParamsCallConsuming ==
    /\ pc = "idle"
    /\ Len(log) < MaxCalls
    /\ LET res == find_changed_params(current_params, component_params)
       IN  /\ old_values' = res.old_values
           /\ changed_params' = res.changed_params
           /\ outcome' = IF res.err THEN "ValidationError" ELSE "returned"
           /\ log' = Append(log, res)
    /\ component_params' = <<>>
    /\ UNCHANGED <<env, mainVars, state_file, device, pc, compIdx, snapshot,
                   connected, phase, iter, current_params,
                   streamReads, afterUnsafe, inAirSeen, stats>>

\* one call find_changed_params(current_params, component_params): it
\* assigns to its two result lists only
FindChangedParamsCall ==
    /\ pc = "idle"
    /\ Len(log) < MaxCalls
    /\ LET res == find_changed_params(current_params, component_params)
       IN  /\ old_values' = res.old_values
           /\ changed_params' = res.changed_params
           /\ outcome' = IF res.err THEN "ValidationError" ELSE "returned"
           /\ log' = Append(log, res)
    /\ UNCHANGED <<env, mainVars, state_file, device, pc, compIdx, snapshot,
                   connected, phase, component_params, iter, current_params,
                   streamReads, afterUnsafe, inAirSeen, stats>>

NextDiff == FindChangedParamsCall

DiffSpec == InitDiff /\ [][NextDiff]_vars

(***************************************************************************)
(* The log of a run                                                        *)
(***************************************************************************)
LogIdx(ops) == {i \in DOMAIN log : log[i].op \in ops}
Logged(ops) == SelectSeq(log, LAMBDA e : e.op \in ops)

\* entries of the log that touch component c
WroteTo(c) == \E i \in LogIdx({"write"}) : log[i].comp = c
ArmableSeen(c) == \E i \in LogIdx({"health"}) : log[i].comp = c /\ log[i].is_armable
RevertStarted(c) == \E i \in LogIdx({"revert"}) : log[i].comp = c

Failed == {"ServerUtilityError", "ParamError", "ValidationError", "ValueError"}

(***************************************************************************)
(* C1 - safety gate.  When the first value a check_in_air gets from the    *)
(* liveness stream is "in air", no parameter write is issued from then on   *)
(* until the run ends (the check is to raise InAir).                        *)
(***************************************************************************)
C1_NoWriteAfterInAirFirst == afterUnsafe # "wrote"

(***************************************************************************)
(* C2 - rollback guarantee.  When a run has ended, every component that     *)
(* was written to was either seen armable by the health check, or its       *)
(* restoration with the snapshot was started.                               *)
(***************************************************************************)
C2_WrittenThenVerifiedOrReverted ==
    pc = "done" =>
        \A c \in Components : WroteTo(c) => ArmableSeen(c) \/ RevertStarted(c)

(***************************************************************************)
(* C3 - rollback completeness.                                             *)
(***************************************************************************)
ForwardWrote ==
    \E i \in LogIdx({"write"}) : log[i].comp = Comp /\ log[i].phase = "forward"

\* process_component_or_revert has finished after the health check said
\* "not armable"
RevertOver == pc = "done" /\ phase = "revert"

\* a within the float tolerance of b (exactly b, for int and str)
WithinTolerance(a, b) ==
    /\ a.kind = b.kind
    /\ \/ a.value = b.value
       \/ /\ a.kind = "float"
          /\ Abs(a.value - b.value)
                <= Max2(Abs(a.value), Abs(b.value)) \div (10 ^ 6)

\* C3 as claimed: after a forward pass wrote and the vehicle was then not
\* armable, the finished process_component_or_revert leaves every parameter
\* of the component as it was read before the first write.
C3_RevertRestoresSnapshot ==
    (RevertOver /\ ForwardWrote) =>
        \A n \in DOMAIN connected :
            read_param_spec(device[Comp])[n] = read_param_spec(connected)[n]

\* C3 as amended: when moreover the restoration loop ended on an empty diff
\* (no InAir, no failed send or write, within MAX_REAPPLICATIONS passes),
\* every parameter of the component reads as it did before the first write:
\* exactly for int and str parameters, within the float tolerance for float
\* parameters; for every name of the device, not only the names of the file.
C3_ConvergedRevertRestoresSnapshot ==
    (RevertOver /\ ForwardWrote /\ outcome = "NotArmable" /\ changed_params = <<>>) =>
        \A n \in DOMAIN connected :
            WithinTolerance(read_param_spec(device[Comp])[n],
                            read_param_spec(connected)[n])

\* a converged restoration that wrote back a parameter the file does not name
C3_Witness ==
    /\ RevertOver /\ ForwardWrote /\ outcome = "NotArmable" /\ changed_params = <<>>
    /\ \E i \in LogIdx({"write"}) :
        /\ log[i].phase = "revert"
        /\ \A j \in DOMAIN params[compIdx].params :
              params[compIdx].params[j].name # log[i].name

(***************************************************************************)
(* C4 - the version marker.  save_version runs at most once in a run, as   *)
(* the run's last action, after every component was seen armable; the state *)
(* file changes in no other way, so a run that ended in InAir, NotArmable   *)
(* or a failed send or write leaves it as it was.                           *)
(***************************************************************************)
C4_MarkerOnlyAfterAllComponents ==
    /\ Cardinality(LogIdx({"save"})) <= 1
    /\ \A i \in LogIdx({"save"}) :
        /\ i = Len(log)
        /\ pc = "done" /\ outcome = "updated"
        /\ ~args.skip_version_check
        /\ \A k \in DOMAIN params : ArmableSeen(params[k].component)
    /\ state_file # state_file0 => LogIdx({"save"}) # {}
    /\ (pc = "done" /\ outcome \in {"InAir", "NotArmable"} \cup Failed)
          => state_file = state_file0

\* the second component was reverted after the first was updated: the marker
\* is not the file's version
C4_Witness ==
    /\ pc = "done" /\ outcome = "NotArmable" /\ compIdx = 2
    /\ ~args.skip_version_check
    /\ WroteTo(Comp1)
    /\ state_file = state_file0 /\ state_file # SaveFormat(version)

(***************************************************************************)
(* C5 - version gate.  A run that finds the marker save_version writes for *)
(* the file's version, the check not skipped, touches neither the vehicle   *)
(* nor the state file; so does the run after a run that updated.            *)
(***************************************************************************)
C5_VersionGateNoOp ==
    /\ (runs >= 1 /\ ~args.skip_version_check
           /\ state_file0 = SaveFormat(param_file.version))
          => /\ log = <<>>
             /\ state_file = state_file0
             /\ pc = "done" /\ outcome = "unchanged"
    /\ (runs >= 2 /\ ~args.skip_version_check /\ prevOutcome = "updated")
          => /\ log = <<>>
             /\ state_file = state_file0
             /\ pc = "done" /\ outcome = "unchanged"

\* the second run after a first that wrote to the vehicle and updated
C5_Witness ==
    /\ runs = 2 /\ prevOutcome = "updated" /\ ~args.skip_version_check
    /\ device[Comp1] # FactoryDevice(DOMAIN device[Comp1])
    /\ pc = "done" /\ outcome = "unchanged" /\ log = <<>>

(***************************************************************************)
(* C6 - convergence termination.  One call of                              *)
(* process_component_until_complete makes at most MAX_REAPPLICATIONS        *)
(* liveness checks, reads, diffs and apply passes, and has returned once    *)
(* the last apply pass is made.                                             *)
(***************************************************************************)
InLoop == pc \in {"in_air", "diff", "notify", "set_params"}

C6_AtMostMaxPasses ==
    /\ stats.checks <= 5 /\ stats.reads <= 5
    /\ stats.diffs <= 5 /\ stats.applies <= 5
    /\ stats.applies = 5 => ~InLoop

\* the forward loop has returned after five apply passes, the last diff not
\* empty
C6_Witness ==
    /\ pc = "health" /\ stats.applies = 5 /\ stats.checks = 5
    /\ changed_params # <<>>

(***************************************************************************)
(* C7 - end to end.                                                        *)
(***************************************************************************)
TheList == param_file.entries[1].params

\* the value the file gives to p, in the kind of the live parameter, is not
\* the live value
DiffersFromLive(p) ==
    /\ p.name \in DOMAIN connected
    /\ LET cur == read_param_spec(connected)[p.name]
           v == model_validate(cur, p)
       IN  ~v.err /\ v.param.value # cur.value

\* one component with 2..5 parameters that all differ from the live ones, a
\* vehicle that is never in air, stores what is written, has no side
\* effects, fails no send and no write, and is armable afterwards
EndToEndCase ==
    /\ pc = "done"
    /\ Len(param_file.entries) = 1
    /\ Len(TheList) \in 2..5
    /\ \A j \in DOMAIN TheList : DiffersFromLive(TheList[j])
    /\ rules = {}
    /\ inAirSeen = 0
    /\ LogIdx({"msg_fail", "write_fail"}) = {}
    /\ \A i \in LogIdx({"check_in_air"}) : log[i].safe
    /\ \E i \in LogIdx({"health"}) : log[i].is_armable

\* exactly k writes, one summary and k details, the marker of the version
EndToEndResult ==
    LET k == Len(TheList)
        writes == Logged({"write"})
        msgs == Logged({"msg"})
    IN  /\ Len(writes) = k
        /\ \A j \in 1..k : writes[j].name = TheList[j].name
        /\ Len(msgs) = k + 1
        /\ msgs[1].severity = "ERROR"
        /\ msgs[1].text.fmt = "updating" /\ msgs[1].text.n = k
        /\ \A j \in 1..k :
              /\ msgs[j + 1].severity = "INFO"
              /\ msgs[j + 1].text.fmt = "chng"
              /\ msgs[j + 1].text.name = TheList[j].name
        /\ state_file = SaveFormat(param_file.version)

\* C7 as claimed: in that case the run issues exactly k writes, sends one
\* summary followed by k details, and ends with the marker of the version.
C7_EndToEnd == EndToEndCase => EndToEndResult

\* the value the file gives to p does not compare equal to the live value,
\* and compares equal to what is read back once the vehicle has stored it
ChangesAndSettles(p) ==
    /\ p.name \in DOMAIN connected
    /\ LET cur == read_param_spec(connected)[p.name]
           v == model_validate(cur, p)
           back == IF cur.kind = "float" THEN Round6(v.param.value)
                   ELSE v.param.value
       IN  /\ ~v.err
           /\ ~WithinTolerance(v.param, cur)
           /\ WithinTolerance(v.param, [v.param EXCEPT !.value = back])

\* C7 as amended: the version check is not skipped; the k parameters have
\* k different names, none of them dropped by _skip_settings; each value
\* does not compare equal to the live value (floats: differs by more than
\* the tolerance) and compares equal to its own value as read back.
C7_EndToEndNotSkipped ==
    ( /\ EndToEndCase
      /\ ~args.skip_version_check
      /\ \A i, j \in DOMAIN TheList : TheList[i].name = TheList[j].name => i = j
      /\ \A j \in DOMAIN TheList :
            ~SkippedName(TheList[j].name) /\ ChangesAndSettles(TheList[j]) )
    => EndToEndResult

\* the case with five parameters
C7_Witness ==
    /\ EndToEndCase /\ ~args.skip_version_check /\ Len(TheList) = 5
    /\ \A j \in DOMAIN TheList :
          ~SkippedName(TheList[j].name) /\ ChangesAndSettles(TheList[j])
    /\ outcome = "updated" /\ Len(Logged({"write"})) = 5

(***************************************************************************)
(* C8 - notification batching.  When notify_changed_params has returned,   *)
(* the status texts it sent for a change-set of n parameters are: one text  *)
(* naming the parameter with old and new value (n = 1); one summary and n   *)
(* details in the order of the change-set (2 <= n <= 5); one summary only   *)
(* (n > 5); and for n = 0 it sends none.                                    *)
(***************************************************************************)
\* the status texts sent since the last read of the vehicle
RECURSIVE TrailingMsgs(_)
TrailingMsgs(l) ==
    IF l = <<>> \/ l[Len(l)].op # "msg" THEN <<>>
    ELSE Append(TrailingMsgs(SubSeq(l, 1, Len(l) - 1)), l[Len(l)])

IsDetail(m, sev, o, c) ==
    /\ m.severity = sev
    /\ m.text.fmt = "chng"
    /\ m.text.name = c.name /\ o.name = c.name
    /\ m.text.old = o.value /\ m.text.new = c.value

C8_NotificationBatching ==
    /\ notify_changed_params(<<>>, <<>>) = <<>>
    /\ pc = "set_params" =>
        LET n == Len(changed_params)
            sent == TrailingMsgs(log)
        IN  /\ n >= 1
            /\ n = 1 =>
                /\ Len(sent) = 1
                /\ IsDetail(sent[1], "ERROR", old_values[1], changed_params[1])
            /\ n >= 2 =>
                /\ Len(sent) = IF n <= 5 THEN n + 1 ELSE 1
                /\ sent[1].severity = "ERROR"
                /\ sent[1].text.fmt = "updating" /\ sent[1].text.n = n
                /\ \A j \in 2..Len(sent) :
                      IsDetail(sent[j], "INFO", old_values[j - 1],
                               changed_params[j - 1])

\* a change-set of more than five parameters was notified
C8_Witness ==
    /\ pc = "set_params" /\ Len(changed_params) > 5
    /\ Len(TrailingMsgs(log)) = 1

(***************************************************************************)
(* C9 - a failed send_status_text does not reach the reconciliation: the   *)
(* change-set of that pass is written all the same.                         *)
(***************************************************************************)
C9_SendFailureDoesNotPropagate ==
    \A i \in LogIdx({"msg_fail"}) :
        /\ outcome # "ServerUtilityError"
        /\ pc = "done" =>
              \E j \in LogIdx({"write"}) :
                  j > i /\ log[j].phase = log[i].phase /\ log[j].iter = log[i].iter

(***************************************************************************)
(* C10 - unknown names.  A parameter of the desired list whose name the    *)
(* vehicle does not have is in neither list find_changed_params returns,    *)
(* is never written and never named in a status text.                       *)
(***************************************************************************)
Unknown == {j \in DOMAIN component_params :
               component_params[j].name \notin DOMAIN device[Comp]}

C10_UnknownNameSkipped ==
    /\ InLoop =>
        \A j \in Unknown :
            /\ \A k \in DOMAIN changed_params :
                  changed_params[k].name # component_params[j].name
            /\ \A k \in DOMAIN old_values :
                  old_values[k].name # component_params[j].name
    /\ \A i \in LogIdx({"write", "write_fail"}) :
          log[i].name \in DOMAIN device[log[i].comp]
    /\ \A i \in LogIdx({"msg", "msg_fail"}) :
          log[i].text.fmt = "chng" => log[i].text.name \in DOMAIN device[log[i].comp]

\* a pass that writes one parameter of a list and skipped another, unknown
C10_Witness ==
    /\ pc = "in_air" /\ iter = 1
    /\ Unknown # {}
    /\ LogIdx({"write"}) # {}

(***************************************************************************)
(* C11 - diff purity.  Calls of find_changed_params on the same live set   *)
(* and desired list return the same two lists and leave both inputs as they *)
(* were; and the diff of a live set against the list of its own parameters  *)
(* (the snapshot of line 84, taken from the same state) is empty.           *)
(***************************************************************************)
EmptyDiff == [err |-> FALSE, old_values |-> <<>>, changed_params |-> <<>>]

ClaimedEqual(kind, a, b) ==
    IF kind = "float"
    THEN \/ a = b
         \/ /\ Abs(a - b) <= 2147
            /\ Abs(a - b) * (10 ^ 6) <= Max2(Abs(a), Abs(b))
    ELSE a = b

C12_FloatTolerance ==
    /\ _params_equal(DevParam(MPC_Z, "float", UnitsPerOne + 1),
                     DevParam(MPC_Z, "float", UnitsPerOne))
    /\ ~_params_equal(DevParam(MPC_Z, "float", UnitsPerOne + 100),
                      DevParam(MPC_Z, "float", UnitsPerOne))
    /\ \A i \in DOMAIN log : ~log[i].err =>
        \A k \in DOMAIN component_params :
            LET p == component_params[k]
            IN  p.name \in DOMAIN current_params =>
                  LET cur == current_params[p.name]
                      v == model_validate(cur, p).param.value
                      listed == \E j \in DOMAIN log[i].changed_params :
                                   /\ log[i].changed_params[j].name = p.name
                                   /\ log[i].changed_params[j].value = v
                  IN  listed <=> ~ClaimedEqual(cur.kind, v, cur.value)

\* live BAT_N = 0 and MPC_Z = 1.000000 against desired 1 and 1.0000001: the
\* integer is in the change-set, the float is not
C12_Witness ==
    /\ log # <<>>
    /\ component_params = <<Bat1, MpcNear>>
    /\ BAT_N \in DOMAIN current_params
    /\ current_params[MPC_Z].value = UnitsPerOne
    /\ Len(changed_params) = 1 /\ changed_params[1].name = BAT_N

(***************************************************************************)
(* C13 - an abort ends the run.  Once a check_in_air has raised InAir, or   *)
(* the health check has reported not armable, nothing but the restoration   *)
(* of that same component follows: no connect, read, liveness or health     *)
(* query, write or status text for another component, and no save of the    *)
(* version; when the run has ended so, no component after it in the file    *)
(* was touched at all.                                                      *)
(***************************************************************************)
AbortMark(e) ==
    \/ e.op = "check_in_air" /\ ~e.safe
    \/ e.op = "health" /\ ~e.is_armable

Touched(c) == \E i \in DOMAIN log : log[i].op # "save" /\ log[i].comp = c

C13_AbortStopsRun ==
    /\ \A i \in DOMAIN log : AbortMark(log[i]) =>
        \A j \in (i + 1)..Len(log) :
            /\ log[j].op # "save"
            /\ log[j].comp = log[i].comp
            /\ log[j].op # "connect"
    /\ (pc = "done" /\ outcome \in {"InAir", "NotArmable"}) =>
        /\ \E i \in DOMAIN log : AbortMark(log[i])
        /\ \A k \in (compIdx + 1)..Len(params) : ~Touched(params[k].component)

\* a file of two components, the first written to, found not armable and
\* restored: the second was not touched
C13_Witness ==
    /\ pc = "done" /\ outcome = "NotArmable"
    /\ Len(params) = 2 /\ compIdx = 1
    /\ WroteTo(Comp1)
    /\ ~Touched(Comp2)

(***************************************************************************)
(* C14 - a rejected write ends the reconciliation.  After set_params had a  *)
(* write rejected, no later parameter of that change-set is written, no     *)
(* further pass is made (no liveness check, read, status text or write, no  *)
(* health check, no restoration) and the error is what the run ends with.   *)
(***************************************************************************)
C14_WriteFailureEndsReconciliation ==
    \A i \in LogIdx({"write_fail"}) :
        /\ i = Len(log)
        /\ pc = "done" /\ outcome \in {"ParamError", "ValueError"}
        /\ \E k \in DOMAIN changed_params :
            /\ changed_params[k].name = log[i].name
            /\ \A j \in 1..(k - 1) :
                  /\ log[i - j].op = "write"
                  /\ log[i - j].name = changed_params[k - j].name
            /\ log[i - k].op \in {"msg", "read"}

\* the first write of a change-set of several parameters was rejected in the
\* first pass: the others were not written, the run is over
C14_Witness ==
    /\ pc = "done" /\ outcome = "ParamError"
    /\ Len(changed_params) >= 2
    /\ log[Len(log)].op = "write_fail"
    /\ log[Len(log)].name = changed_params[1].name
    /\ log[Len(log)].iter = 0
    /\ LogIdx({"write"}) = {}

(***************************************************************************)
(* C15 - retry of a rejected write.  When a write was rejected in a pass    *)
(* that was not the last of the MAX_REAPPLICATIONS, the loop has made its   *)
(* next pass for that component by the time the run has ended: a liveness   *)
(* check of the same loop follows the rejected write.                       *)
(***************************************************************************)
C15_RejectedWriteRetriedNextPass ==
    pc = "done" =>
        \A i \in LogIdx({"write_fail"}) :
            log[i].iter + 1 < MAX_REAPPLICATIONS =>
                \E j \in LogIdx({"check_in_air"}) :
                    /\ j > i
                    /\ log[j].comp = log[i].comp
                    /\ log[j].phase = log[i].phase

(***************************************************************************)
(* C16 - a value that cannot be coerced.  A desired value that does not     *)
(* validate into the kind of the live parameter does not end the run: the   *)
(* diff returns, and the other parameters of the list that differ from the  *)
(* live ones are written.                                                   *)
(***************************************************************************)
C16_UncoercibleValueSkipped ==
    /\ outcome # "ValidationError"
    /\ ( /\ pc = "done"
         /\ Len(param_file.entries) = 1 /\ TheList = <<BatX, MpcFar>>
         /\ BAT_N \in DOMAIN connected
         /\ \A i \in LogIdx({"check_in_air"}) : log[i].safe
         /\ LogIdx({"msg_fail", "write_fail"}) = {} )
       => \E i \in LogIdx({"write"}) : log[i].name = MPC_Z

(***************************************************************************)
(* C17 - passes used up.                                                    *)
(***************************************************************************)
\* log[i] is the last write of a fifth apply pass that was made in full
LastOfFifthPass(i) ==
    /\ log[i].op = "write"
    /\ log[i].iter = MAX_REAPPLICATIONS - 1
    /\ i = Len(log) \/ log[i + 1].op \notin {"write", "write_fail"}

\* what follows is the health check of the same component: no error, no
\* further liveness check, read or diff
HealthCheckNext(i) ==
    IF i = Len(log) THEN pc = "health"
    ELSE log[i + 1].op = "health" /\ log[i + 1].comp = log[i].comp

\* a run in which every component was seen armable has ended as updated,
\* with the marker of the version unless the version check is skipped
EndsAsConverged ==
    ( /\ pc = "done" /\ params # <<>>
      /\ \A k \in DOMAIN params : ArmableSeen(params[k].component) )
        => /\ outcome = "updated"
           /\ state_file = IF args.skip_version_check THEN state_file0
                           ELSE SaveFormat(version)

\* C17 as claimed: after five apply passes of process_component_until_complete
\* the run proceeds to the health check, without an error and without a further
\* diff, and saves the version as a converged run does.
C17_ExhaustedLoopGoesToHealth ==
    /\ \A i \in DOMAIN log : LastOfFifthPass(i) => HealthCheckNext(i)
    /\ EndsAsConverged

\* C17 as amended: so it is after the five passes of the forward call (line 85);
\* after the five passes of the restoration call (line 91) the function returns
\* likewise, NotArmable is raised again and the run ends, state file untouched.
C17_ExhaustedForwardLoopGoesToHealth ==
    /\ \A i \in DOMAIN log : LastOfFifthPass(i) =>
        IF log[i].phase = "forward" THEN HealthCheckNext(i)
        ELSE /\ i = Len(log)
             /\ pc = "done" /\ outcome = "NotArmable"
             /\ state_file = state_file0
    /\ EndsAsConverged

\* a run that used up the five passes of the forward loop, found the vehicle
\* armable and saved the version
C17_Witness ==
    /\ pc = "done" /\ outcome = "updated" /\ ~args.skip_version_check
    /\ state_file = SaveFormat(version) /\ state_file # state_file0
    /\ \E i \in DOMAIN log : LastOfFifthPass(i) /\ log[i].phase = "forward"

(***************************************************************************)
(* C18 - the order of a pass.  In the forward and in the restoration loop   *)
(* alike, a pass is: a liveness check that returned safe, then a read of    *)
(* the vehicle, then the diff against that read, then the status texts,     *)
(* then the writes.  So every write follows, in its own pass, a liveness    *)
(* check that returned safe, and the change-set a pass notifies and writes  *)
(* is the diff against what the vehicle holds in that pass.                 *)
(***************************************************************************)
SamePass(i, j) ==
    /\ log[i].comp = log[j].comp
    /\ log[i].phase = log[j].phase
    /\ log[i].iter = log[j].iter

\* log[j] is the read of a pass: what comes before it is the liveness check
\* of the same pass, which returned safe
ReadOfPass(j) ==
    /\ j > 1 /\ log[j].op = "read"
    /\ log[j - 1].op = "check_in_air" /\ log[j - 1].safe
    /\ SamePass(j - 1, j)

\* what the vehicle holds now, as a read returns it
LiveNow ==
    [n \in DOMAIN device[Comp] |->
        LET q == device[Comp][n]
        IN  [name |-> n, kind |-> q.kind, type |-> NoType,
             value |-> IF q.kind = "float" THEN Round6(q.value) ELSE q.value]]

C18_PassOrder ==
    /\ \A j \in DOMAIN log :
        /\ log[j].op = "read" => (ReadOfPass(j) \/ (j > 1 /\ log[j - 1].op = "connect"))
        /\ log[j].op \in {"msg", "msg_fail"} =>
              /\ SamePass(j - 1, j)
              /\ log[j - 1].op = "msg" \/ ReadOfPass(j - 1)
        /\ log[j].op \in {"write", "write_fail"} =>
              /\ SamePass(j - 1, j)
              /\ log[j - 1].op \in {"msg", "write"}
        /\ log[j].op = "check_in_air" =>
              log[j - 1].op \in {"read", "write", "revert"}
    /\ pc \in {"notify", "set_params"} =>
        /\ log[Len(log)].phase = phase /\ log[Len(log)].iter = iter
        /\ current_params = LiveNow
        /\ \A k \in DOMAIN old_values : old_values[k] = LiveNow[old_values[k].name]
        /\ find_changed_params(LiveNow, component_params) =
              [err |-> FALSE, old_values |-> old_values,
               changed_params |-> changed_params]

\* the change-set of the second pass of a restoration is about to be written
C18_Witness ==
    /\ pc = "set_params" /\ phase = "revert" /\ iter = 1
    /\ changed_params # <<>>
    /\ current_params # read_param_spec(connected)

(***************************************************************************)
(* C19 - the change-set is well formed.  The two lists find_changed_params  *)
(* returns have the same length; at each index both entries have the same   *)
(* name, the first is the live parameter and the second holds the desired   *)
(* value, in the kind of the live parameter; and the names are those of the *)
(* desired parameters whose name the live set has and whose value does not  *)
(* compare equal to the live value, in the order of the desired list.       *)
(***************************************************************************)
\* the desired parameters that are to be in the change-set, in their order
ToChange ==
    SelectSeq(component_params,
        LAMBDA p : /\ p.name \in DOMAIN current_params
                   /\ ~_params_equal(model_validate(current_params[p.name], p).param,
                                     current_params[p.name]))

C19_ChangeSetWellFormed ==
    \A i \in DOMAIN log : ~log[i].err =>
        LET old == log[i].old_values
            new == log[i].changed_params
        IN  /\ Len(old) = Len(new)
            /\ Len(new) = Len(ToChange)
            /\ \A k \in DOMAIN new :
                /\ old[k].name = new[k].name
                /\ new[k].name = ToChange[k].name
                /\ old[k] = current_params[new[k].name]
                /\ new[k].kind = old[k].kind
                /\ new[k].value =
                      model_validate(current_params[new[k].name], ToChange[k]).param.value

\* a desired list in another order than the vehicle lists its parameters,
\* one of its three parameters equal to the live one
C19_Witness ==
    /\ log # <<>> /\ outcome = "returned"
    /\ component_params = <<UuidB, Bat1, MpcFar>>
    /\ Len(changed_params) = 2
    /\ changed_params[1].name = BAT_N /\ changed_params[2].name = MPC_Z

(***************************************************************************)
(* C20 - one health check, one restoration.  For each component: the       *)
(* health status is queried at most once, after the forward loop and never  *)
(* after the restoration; the restoration is started at most once and only  *)
(* by a health check that reported not armable, so snapshot values are      *)
(* written only after it; and the component sees at most                    *)
(* 2 * MAX_REAPPLICATIONS apply passes.                                     *)
(***************************************************************************)
OfComp(c, ops) == {i \in LogIdx(ops) : log[i].comp = c}

\* the apply passes made on c: the (phase, iter) of its writes
ApplyPasses(c) ==
    {<<log[i].phase, log[i].iter>> : i \in OfComp(c, {"write", "write_fail"})}

C20_OneHealthCheckOneRestoration ==
    \A c \in Components :
        /\ Cardinality(OfComp(c, {"health"})) <= 1
        /\ Cardinality(OfComp(c, {"revert"})) <= 1
        /\ \A h \in OfComp(c, {"health"}) :
            /\ log[h - 1].comp = c /\ log[h - 1].phase = "forward"
            /\ log[h - 1].op \in {"read", "write"}
            /\ \A i \in 1..(h - 1) : log[i].comp = c => log[i].phase = "forward"
        /\ \A r \in OfComp(c, {"revert"}) :
            /\ log[r - 1].op = "health" /\ ~log[r - 1].is_armable
            /\ log[r - 1].comp = c
        /\ \A i \in DOMAIN log :
            (log[i].op # "save" /\ log[i].comp = c /\ log[i].phase = "revert") =>
                \E r \in OfComp(c, {"revert"}) : r < i
        /\ Cardinality(ApplyPasses(c)) <= 2 * MAX_REAPPLICATIONS

\* a component that saw five apply passes of the forward loop and five of the
\* restoration
C20_Witness ==
    /\ pc = "done" /\ outcome = "NotArmable"
    /\ Cardinality(ApplyPasses(Comp)) = 2 * MAX_REAPPLICATIONS
    /\ Cardinality(OfComp(Comp, {"health"})) = 1

====
